---- MODULE Spec2Model ----
(***************************************************************************)
(* Deutsch Lernen, terminal vocabulary trainer (src/terminal/game.py).     *)
(*                                                                         *)
(* The module models the progress document and its persistence, the       *)
(* mastery store, the weighted sampler, the answer normalisation, the     *)
(* construction of multiple-choice lists and the four practice modes in   *)
(* their single-category and all-categories variants, driven from the     *)
(* main menu and the mode menu.  One action stands for everything the     *)
(* program does between two prompts.                                      *)
(***************************************************************************)
EXTENDS Integers, Sequences, FiniteSets, TLC

VARIABLES
    vocab,      \* load_all_vocab(): category -> word list, loaded categories only
    file,       \* the content of PROGRESS_FILE on disk
    progress,   \* the in-memory progress document
    pc,         \* the prompt the program is waiting at
    category,   \* the category chosen in the main menu ("all" for all categories)
    session,    \* the local variables of the running practice mode
    sessions,   \* practice modes entered so far in this run
    answers,    \* scored answers so far in this run
    saves,      \* save_progress calls so far in this run
    op,         \* the operation that produced the current state
    call        \* the local variables of a function that is run on its own

vars ==
    <<vocab, file, progress, pc, category, session, sessions, answers, saves, op, call>>

----------------------------------------------------------------------------
(* Bounds of the model *)

\* practice modes entered plus answers scored in one run of the program
MaxWork == 3
\* direct calls of record_answer in one run of SpecStore
MaxCalls == 3
\* the largest n weighted_sample is called with in SpecSample
MaxSampleN == 4
----------------------------------------------------------------------------
(* Program constants *)

MaxMastery == 5
XpQuiz == 10
XpType == 15
XpSpeed == 5
BatchSize == 10
AttemptFactor == 20
MaxWrong == 3
FullChoices == 4

\* the run may enter one more mode or score one more answer
MayWork(nSessions, nAnswers) == nSessions + nAnswers < MaxWork

Min(a, b) == IF a < b THEN a ELSE b
Max(a, b) == IF a > b THEN a ELSE b
Range(s) == {s[i] : i \in 1..Len(s)}

\* the permutations of 1..n, as sequences (random.shuffle can produce each)
PermTable ==
    [n \in 0..FullChoices |->
        {p \in [1..n -> 1..n] : \A i, j \in 1..n : (i # j) => (p[i] # p[j])}]
Perms(n) == PermTable[n]
Shuffles(s) == {[i \in 1..Len(s) |-> s[p[i]]] : p \in Perms(Len(s))}

----------------------------------------------------------------------------
(* Texts.  A text is a Python str; Spell gives its characters. *)

Spell(text) ==
    CASE text = ""        -> <<>>
      [] text = "sein"    -> <<"s", "e", "i", "n">>
      [] text = "Sein"    -> <<"S", "e", "i", "n">>
      [] text = "hören"   -> <<"h", "ö", "r", "e", "n">>
      [] text = "horen"   -> <<"h", "o", "r", "e", "n">>
      [] text = " HÖREN " -> <<" ", "H", "Ö", "R", "E", "N", " ">>
      [] text = "hoeren"  -> <<"h", "o", "e", "r", "e", "n">>
      [] text = "tun"     -> <<"t", "u", "n">>
      [] text = "machen"  -> <<"m", "a", "c", "h", "e", "n">>
      [] text = "ho ren"  -> <<"h", "o", " ", "r", "e", "n">>
      [] text = "für"     -> <<"f", "ü", "r">>
      [] text = "Für"     -> <<"F", "ü", "r">>
      [] text = "FÜR"     -> <<"F", "Ü", "R">>
      [] text = "fur"     -> <<"f", "u", "r">>
      [] text = " FUR "   -> <<" ", "F", "U", "R", " ">>
      [] text = "fuer"    -> <<"f", "u", "e", "r">>
      [] text = "f ur"    -> <<"f", " ", "u", "r">>
      [] text = "furs"    -> <<"f", "u", "r", "s">>
      [] text = "fu"      -> <<"f", "u">>
      [] text = "Müller"  -> <<"M", "ü", "l", "l", "e", "r">>
      [] text = "MULLER"  -> <<"M", "U", "L", "L", "E", "R">>
      [] text = "Mueller" -> <<"M", "u", "e", "l", "l", "e", "r">>
      [] text = "muller"  -> <<"m", "u", "l", "l", "e", "r">>
      [] text = "Fuß"     -> <<"F", "u", "ß">>
      [] text = "fuss"    -> <<"f", "u", "s", "s">>
      [] text = "fus"     -> <<"f", "u", "s">>

\* a lower() that leaves the text as it is
NotLowered(s) == s

\* str.lower() on one character
LowerChar(c) ==
    CASE c = "S" -> "s"  [] c = "H" -> "h"  [] c = "R" -> "r"
      [] c = "E" -> "e"  [] c = "N" -> "n"  [] c = "O" -> "o"
      [] c = "U" -> "u"  [] c = "M" -> "m"  [] c = "L" -> "l"
      [] c = "F" -> "f"  [] c = "Ö" -> "ö"  [] c = "Ü" -> "ü"
      [] c = "Ä" -> "ä"
      [] OTHER -> c

lower(s) == [i \in 1..Len(s) |-> LowerChar(s[i])]

IsSpace(c) == c = " "

RECURSIVE lstrip(_)
lstrip(s) == IF s # <<>> /\ IsSpace(Head(s)) THEN lstrip(Tail(s)) ELSE s

RECURSIVE rstrip(_)
rstrip(s) ==
    IF s # <<>> /\ IsSpace(s[Len(s)]) THEN rstrip(SubSeq(s, 1, Len(s) - 1)) ELSE s

strip(s) == rstrip(lstrip(s))

\* str.replace(old, new) for a one-character old
RECURSIVE replace(_, _, _)
replace(s, old, new) ==
    IF s = <<>> THEN <<>>
    ELSE (IF Head(s) = old THEN new ELSE <<Head(s)>>) \o replace(Tail(s), old, new)

\* a normalisation that writes the umlauts out as ue, oe, ae
NormalizeTransliterated(s) ==
    LET t0 == strip(lower(s))
        t1 == replace(replace(replace(t0, "ü", <<"u", "e">>), "ö", <<"o", "e">>),
                      "ä", <<"a", "e">>)
    IN  replace(t1, "ß", <<"s", "s">>)

normalize_german(s) ==
    LET t0 == strip(lower(s))
        t1 == replace(replace(replace(t0, "ü", <<"u">>), "ö", <<"o">>), "ä", <<"a">>)
        t2 == replace(replace(replace(t1, "Ü", <<"u">>), "Ö", <<"o">>), "Ä", <<"a">>)
    IN  replace(t2, "ß", <<"s", "s">>)

----------------------------------------------------------------------------
(* Progress helpers *)

Fields == {"xp", "streak", "last_played", "best_speed", "words"}

NoWords == [k \in {} |-> 0]

FreshProgress ==
    [xp |-> 0, streak |-> 0, last_played |-> "", best_speed |-> 0, words |-> NoWords]

NewEntry == [mastery |-> 0, correct |-> 0, wrong |-> 0]

\* f"{category}:{de_word}", for the categories and words of the model
get_word_key(cat, de_word) ==
    CASE cat = "verbs" /\ de_word = "hören"       -> "verbs:hören"
      [] cat = "verbs" /\ de_word = "tun"         -> "verbs:tun"
      [] cat = "verbs" /\ de_word = "machen"      -> "verbs:machen"
      [] cat = "verbs" /\ de_word = "sein"        -> "verbs:sein"
      [] cat = "pronouns" /\ de_word = "sein"     -> "pronouns:sein"
      [] cat = "verbs" /\ de_word = "an:hören"    -> "verbs:an:hören"
      [] cat = "verbs:an" /\ de_word = "hören"    -> "verbs:an:hören"
      [] cat = "verbs:an" /\ de_word = "an:hören" -> "verbs:an:an:hören"
      [] cat = "all" /\ de_word = "hören"         -> "all:hören"
      [] cat = "all" /\ de_word = "tun"           -> "all:tun"
      [] cat = "all" /\ de_word = "machen"        -> "all:machen"
      [] cat = "all" /\ de_word = "sein"          -> "all:sein"

get_mastery(prog, cat, de_word) ==
    LET key == get_word_key(cat, de_word)
    IN  IF key \in DOMAIN prog.words THEN prog.words[key].mastery ELSE 0

\* a store that keeps the record of the last word only
KeepOnly(words, key) ==
    IF key \in DOMAIN words THEN key :> words[key] ELSE key :> NewEntry

\* dict.setdefault(key, {"mastery": 0, "correct": 0, "wrong": 0})
setdefault(words, key) ==
    IF key \in DOMAIN words THEN words ELSE words @@ (key :> NewEntry)

\* the two steps without their limits
RaiseMasteryUncapped(m) == m + 1
RaiseMastery(m) == Min(m + 1, MaxMastery)

LowerMasteryUnfloored(m) == m - 1
LowerMastery(m) == Max(m - 1, 0)

record_answer(prog, cat, de_word, correct) ==
    LET key   == get_word_key(cat, de_word)
        words == setdefault(prog.words, key)
        entry == words[key]
        after == IF correct
                 THEN [entry EXCEPT !.correct = @ + 1,
                                    !.mastery = RaiseMastery(entry.mastery)]
                 ELSE [entry EXCEPT !.wrong = @ + 1,
                                    !.mastery = LowerMastery(entry.mastery)]
    IN  [prog EXCEPT !.words = [words EXCEPT ![key] = after]]

----------------------------------------------------------------------------
(* Calendar.  A day is a number, date.isoformat() its text. *)

isoformat(day) ==
    CASE day = 1 -> "2024-05-01"
      [] day = 2 -> "2024-05-02"
      [] day = 3 -> "2024-05-03"
      [] day = 4 -> "2024-05-04"
      [] day = 5 -> "2024-05-05"

\* the days date.today() may return when the program starts
TodayChoices == {4}

----------------------------------------------------------------------------
(* Persistence: PROGRESS_FILE is missing, is not JSON, holds a JSON value   *)
(* that is no object, or holds an object with some of the fields.          *)

MissingFile   == [kind |-> "missing"]
MalformedFile == [kind |-> "malformed"]
NonObjectFile == [kind |-> "nonobject"]
ObjectFile(data) == [kind |-> "object", data |-> data]

\* json.load succeeds and dict.setdefault then raises AttributeError, which
\* load_progress does not catch
LoadRaises(f) == f.kind = "nonobject"

load_progress(f) ==
    IF f.kind = "object"
    THEN [k \in Fields |-> IF k \in DOMAIN f.data THEN f.data[k] ELSE FreshProgress[k]]
    ELSE FreshProgress

\* json.dump of the whole document: ints, strs and dicts with str keys are
\* written and read back unchanged
\* a save that writes the counters and leaves the word records out
SaveCounters(prog) == ObjectFile([prog EXCEPT !.words = NoWords])
save_progress(prog) == ObjectFile(prog)

\* an update that stamps the date and leaves the streak alone
KeepStreak(prog, day) == [prog EXCEPT !.last_played = isoformat(day)]

update_streak(prog, day) ==
    LET today == isoformat(day)
        last  == prog.last_played
    IN  IF last = today THEN prog
        ELSE [(IF last = isoformat(day - 1)
               THEN [prog EXCEPT !.streak = @ + 1]
               ELSE [prog EXCEPT !.streak = 1])
              EXCEPT !.last_played = today]

\* a document an earlier run has written the day before: five quiz answers
\* on one verb, and a speed round with one right answer on another
VeteranProgress ==
    [xp |-> 55, streak |-> 2, last_played |-> isoformat(3), best_speed |-> 1,
     words |-> ("verbs:hören" :> [mastery |-> 5, correct |-> 5, wrong |-> 0])
                 @@ ("verbs:sein" :> [mastery |-> 1, correct |-> 1, wrong |-> 0])]

\* a document written earlier on the same day, and one written three days ago
SameDayProgress == [FreshProgress EXCEPT !.streak = 4, !.last_played = isoformat(4)]
LapsedProgress == [FreshProgress EXCEPT !.streak = 7, !.last_played = isoformat(1)]

\* an object that lacks fields, and one whose last_played is no date
PartialData == ("streak" :> 4) @@ ("last_played" :> isoformat(3))
OddDateProgress == [FreshProgress EXCEPT !.streak = 3, !.last_played = "gestern"]

----------------------------------------------------------------------------
(* Vocabulary *)

CATEGORIES == <<"verbs", "pronouns">>

Word(de, en) == [de |-> de, en |-> en]

\* what load_all_vocab() finds in the data directory
VocabSynonyms ==
    "verbs" :> <<Word("hören", "hear"), Word("tun", "do"), Word("machen", "do")>>
VocabShared ==
    ("verbs" :> <<Word("sein", "be"), Word("hören", "hear")>>)
        @@ ("pronouns" :> <<Word("sein", "his")>>)
VocabNone == [c \in {} |-> <<>>]

VocabSingle == "pronouns" :> <<Word("sein", "his")>>

\* the data directory and the progress file the program is started with
Installation(v, f) == [vocab |-> v, file |-> f]
Installations ==
    {Installation(VocabSynonyms, MissingFile),
     Installation(VocabShared, ObjectFile(VeteranProgress)),
     Installation(VocabSingle, MalformedFile),
     Installation(VocabSingle, NonObjectFile),
     Installation(VocabSingle, ObjectFile(SameDayProgress)),
     Installation(VocabSingle, ObjectFile(LapsedProgress)),
     Installation(VocabSingle, ObjectFile(PartialData)),
     Installation(VocabSingle, ObjectFile(OddDateProgress)),
     Installation(VocabNone, MissingFile)}

\* vocab.get(cat, [])
VocabGet(v, cat) == IF cat \in DOMAIN v THEN v[cat] ELSE <<>>

Tag(w, cat) == w @@ ("_category" :> cat)

\* main(): every category's words, each tagged with its category
RECURSIVE AllWordsFrom(_, _)
AllWordsFrom(v, i) ==
    IF i > Len(CATEGORIES) THEN <<>>
    ELSE LET cw == VocabGet(v, CATEGORIES[i])
         IN  [k \in 1..Len(cw) |-> Tag(cw[k], CATEGORIES[i])] \o AllWordsFrom(v, i + 1)

all_words(v) == AllWordsFrom(v, 1)

\* cat_map[w["de"]] = w.get("_category", "all"), the last entry winning
RECURSIVE CatMapFrom(_, _)
CatMapFrom(words, i) ==
    IF i = 0 THEN [k \in {} |-> ""]
    ELSE (words[i].de :> (IF "_category" \in DOMAIN words[i]
                          THEN words[i]["_category"] ELSE "all"))
             @@ CatMapFrom(words, i - 1)

cat_map(words) == CatMapFrom(words, Len(words))

\* a lookup by the German text alone
GetCatByText(word, cmap) ==
    IF word.de \in DOMAIN cmap THEN cmap[word.de] ELSE "all"

_get_cat(word, cmap) ==
    IF "_category" \in DOMAIN word THEN word["_category"]
    ELSE IF word.de \in DOMAIN cmap THEN cmap[word.de] ELSE "all"

\* the word list of the chosen category and the category a word's record is
\* kept under: the category argument, or in all-categories mode _get_cat
WordsOf(v, cat) == IF cat = "all" THEN all_words(v) ELSE VocabGet(v, cat)
CatOf(v, cat, word) ==
    IF cat = "all" THEN _get_cat(word, cat_map(all_words(v))) ELSE cat

----------------------------------------------------------------------------
(* Spaced repetition: weighted word selection.  Indices count from 1; the  *)
(* entry words[i] stands in the result as its index i.                     *)

\* a weight that falls to zero for a mastered word
WeightPlain(m) == MaxMastery - m
\* 5 - m + 1
Weight(m) == MaxMastery - m + 1

\* the weight of every word of a list; cat gives each word's category
Weights(prog, v, cat, words) ==
    [i \in 1..Len(words) |->
        Weight(get_mastery(prog, CatOf(v, cat, words[i]), words[i].de))]

\* random.choices(range(len(words)), weights=probs, k=1)[0] can return every
\* index whose probability is positive
Drawable(weights) == {i \in DOMAIN weights : weights[i] > 0}

LoopStart == [chosen_indices |-> {}, result |-> <<>>, attempts |-> 0]

\* a cap that counts from the n of the call plus one
DrawsCapLoose(n) == (n + 1) * AttemptFactor
\* attempts < n * 20
DrawsCap(n) == n * AttemptFactor

\* the condition of the draw loop
Drawing(st, n) == Len(st.result) < n /\ st.attempts < DrawsCap(n)

\* a pass that takes the drawn index whether it was chosen before or not
DrawStepRepeating(st, idx) ==
    [chosen_indices |-> st.chosen_indices \cup {idx},
     result |-> Append(st.result, idx),
     attempts |-> st.attempts + 1]

\* one pass of the draw loop with idx drawn
DrawStep(st, idx) ==
    IF idx \notin st.chosen_indices
    THEN [chosen_indices |-> st.chosen_indices \cup {idx},
          result |-> Append(st.result, idx),
          attempts |-> st.attempts + 1]
    ELSE [st EXCEPT !.attempts = @ + 1]

\* the states the draw loop can end in, from the set S of states it can be in
RECURSIVE DrawLoop(_, _, _)
DrawLoop(S, n, drawable) ==
    IF \E st \in S : Drawing(st, n)
    THEN DrawLoop({st \in S : ~Drawing(st, n)}
                    \cup {DrawStep(st, idx) : st \in {x \in S : Drawing(x, n)},
                                              idx \in drawable},
                  n, drawable)
    ELSE S

\* DrawLoop from the start of the loop, kept for the lists of up to four words
\* of which every index can be drawn
DrawLoopTable ==
    [len \in 1..FullChoices |->
        [n \in 1..len |-> DrawLoop({LoopStart}, n, 1..len)]]

DrawLoopEnds(len, n, drawable) ==
    IF len \in DOMAIN DrawLoopTable /\ n \in 1..len /\ drawable = 1..len
    THEN DrawLoopTable[len][n]
    ELSE DrawLoop({LoopStart}, n, drawable)

\* [i for i in range(len(words)) if i not in chosen_indices], in list order
RECURSIVE RemainingFrom(_, _, _)
RemainingFrom(len, chosen, i) ==
    IF i > len THEN <<>>
    ELSE (IF i \in chosen THEN <<>> ELSE <<i>>) \o RemainingFrom(len, chosen, i + 1)

Remaining(len, chosen) == RemainingFrom(len, chosen, 1)

Take(s, k) == SubSeq(s, 1, Min(k, Len(s)))

\* a return without the padding
Unpadded(st, len, n) == {st.result}
\* _quiz_all and _type_all: the batch is what the draw loop has collected
NoPad(st, len, n) == {st.result}
\* weighted_sample: the results of padding a final loop state
Pad(st, len, n) ==
    IF Len(st.result) < n
    THEN {st.result \o Take(sh, n - Len(st.result)) :
            sh \in Shuffles(Remaining(len, st.chosen_indices))}
    ELSE {st.result}

\* _learn_all: ordered.extend(remaining), the whole shuffled rest
PadAll(st, len, n) ==
    IF Len(st.result) < n
    THEN {st.result \o sh : sh \in Shuffles(Remaining(len, st.chosen_indices))}
    ELSE {st.result}

\* weighted_sample(progress, category, words, n): every result it can return
weighted_sample(weights, n) ==
    IF Len(weights) = 0 THEN {<<>>}
    ELSE LET n1 == Min(n, Len(weights))
         IN  UNION {Pad(st, Len(weights), n1) :
                      st \in DrawLoopEnds(Len(weights), n1, Drawable(weights))}

\* the inline copy of the sampler in _learn_all, with n = len(words)
SampleLearnAll(weights) ==
    UNION {PadAll(st, Len(weights), Len(weights)) :
             st \in DrawLoopEnds(Len(weights), Len(weights), Drawable(weights))}

\* the inline copy in _quiz_all and _type_all, which stops after the draw loop
SampleBatchAll(weights, n) ==
    UNION {NoPad(st, Len(weights), n) :
             st \in DrawLoopEnds(Len(weights), n, Drawable(weights))}

n_questions(words) == Min(BatchSize, Len(words))

----------------------------------------------------------------------------
(* Multiple-choice lists *)

\* [w[side] for w in words if w[side] != correct_answer]
RECURSIVE wrong_pool(_, _, _)
wrong_pool(words, side, correct_answer) ==
    IF words = <<>> THEN <<>>
    ELSE (IF Head(words)[side] # correct_answer THEN <<Head(words)[side]>> ELSE <<>>)
             \o wrong_pool(Tail(words), side, correct_answer)

\* while len(choices) < 4 and wrong_pool: choices.append(wrong_pool.pop())
RECURSIVE PadChoices(_, _)
PadChoices(choices, pool) ==
    IF Len(choices) < FullChoices /\ pool # <<>>
    THEN PadChoices(Append(choices, pool[Len(pool)]), SubSeq(pool, 1, Len(pool) - 1))
    ELSE choices

\* the lists whose elements are those of the set S, each once: list(set(...))
ListsOfSet(S) ==
    {q \in [1..Cardinality(S) -> S] : \A x \in S : \E i \in DOMAIN q : q[i] = x}

\* if len(choices) < 2: choices = list(set(choices + [correct_answer]))
Degenerate(choices, correct_answer) ==
    IF Len(choices) < 2 THEN ListsOfSet(Range(choices) \cup {correct_answer})
    ELSE {choices}

\* quiz_mode: every choice list it can build for a question
QuizChoices(words, side, correct_answer) ==
    UNION {UNION {Degenerate(c, correct_answer) :
                    c \in Shuffles(PadChoices(<<correct_answer>> \o Take(pool, MaxWrong),
                                              pool))} :
             pool \in Shuffles(wrong_pool(words, side, correct_answer))}

\* _quiz_all, speed_round and _speed_all: no padding
PlainChoices(words, side, correct_answer) ==
    UNION {Shuffles(<<correct_answer>> \o Take(pool, MaxWrong)) :
             pool \in Shuffles(wrong_pool(words, side, correct_answer))}

----------------------------------------------------------------------------
(* The program: start, main menu, mode menu *)

NoSession == [mode |-> "none"]
\* the progress document as it was when the running Quiz, Type or Speed
\* session began, kept beside the session's local variables
Started(s, prog) == s @@ [start |-> prog]
Keep(s) == s @@ [start |-> session.start]
NoCall == [fn |-> "none"]
Op(name) == [name |-> name]

Words == WordsOf(vocab, category)
IsAll == category = "all"

Init ==
    /\ \E inst \in Installations : vocab = inst.vocab /\ file = inst.file
    /\ progress = FreshProgress
    /\ pc = "start"
    /\ category = ""
    /\ session = NoSession
    /\ sessions = 0
    /\ answers = 0
    /\ saves = 0
    /\ op = Op("init")
    /\ call = NoCall

\* main() up to the first prompt of the main menu
Main(day) ==
    /\ pc = "start"
    /\ IF vocab = VocabNone
       THEN /\ pc' = "exit1"
            /\ UNCHANGED <<progress, file, saves>>
       ELSE IF LoadRaises(file)
       THEN /\ pc' = "crashed"
            /\ UNCHANGED <<progress, file, saves>>
       ELSE /\ progress' = update_streak(load_progress(file), day)
            /\ file' = save_progress(progress')
            /\ saves' = saves + 1
            /\ pc' = "main_menu"
    /\ op' = [name |-> "main", today |-> day]
    /\ UNCHANGED <<vocab, category, session, sessions, answers, call>>

\* what the user may type at the main menu: quit, all, a number, anything else
MainMenuInputs == {"q", "a", "1", "2", "0", "x"}

ParsedIndex(choice) ==
    CASE choice = "0" -> 0 [] choice = "1" -> 1 [] choice = "2" -> 2 [] OTHER -> -1

\* main_menu(): None, "all", a category or "__invalid__"
main_menu(choice) ==
    IF choice = "q" THEN "None"
    ELSE IF choice = "a" THEN "all"
    ELSE IF 1 <= ParsedIndex(choice) /\ ParsedIndex(choice) <= Len(CATEGORIES)
    THEN CATEGORIES[ParsedIndex(choice)]
    ELSE "__invalid__"

\* one pass of the loop of main()
MainMenu(choice) ==
    /\ pc = "main_menu"
    /\ LET picked == main_menu(choice)
       IN  IF picked = "None" THEN pc' = "exit0" /\ category' = category
           ELSE IF picked = "__invalid__" THEN pc' = pc /\ category' = category
           ELSE IF picked = "all"
           THEN IF all_words(vocab) = <<>>
                THEN pc' = pc /\ category' = category
                ELSE pc' = "mode_menu" /\ category' = "all"
           ELSE IF VocabGet(vocab, picked) = <<>>
                THEN pc' = "no_words" /\ category' = category
                ELSE pc' = "mode_menu" /\ category' = picked
    /\ op' = Op("main_menu")
    /\ UNCHANGED <<vocab, file, progress, session, sessions, answers, saves, call>>

\* mode_menu(): the mode, None or "__invalid__"
mode_menu(choice) ==
    CASE choice = "1" -> "learn"
      [] choice = "2" -> "quiz"
      [] choice = "3" -> "type"
      [] choice = "4" -> "speed"
      [] choice = "b" -> "None"
      [] OTHER -> "__invalid__"

\* play_category / _play_all_categories: back to the main menu, or redisplay
ModeMenuBack ==
    /\ pc = "mode_menu"
    /\ \E choice \in {"b", "x"} :
         /\ IF mode_menu(choice) = "None"
            THEN pc' = "main_menu" /\ category' = ""
            ELSE pc' = pc /\ category' = category
         /\ op' = Op("mode_menu")
    /\ UNCHANGED <<vocab, file, progress, session, sessions, answers, saves, call>>

\* press_enter_to_continue() after a message or a result panel
PressEnter ==
    /\ pc \in {"no_words", "quiz_few", "speed_few", "quiz_done", "type_done",
               "speed_done"}
    /\ pc' = IF pc = "no_words" THEN "main_menu" ELSE "mode_menu"
    /\ session' = NoSession
    /\ op' = Op("press_enter")
    /\ UNCHANGED <<vocab, file, progress, category, sessions, answers, saves, call>>

----------------------------------------------------------------------------
(* Learn mode (flashcards) *)

CurWeights == Weights(progress, vocab, category, Words)

\* the card shown: ordered[idx], idx counting from 0 as in the source
LearnWord == Words[session.ordered[session.idx + 1]]

LearnBegin(orderings) ==
    /\ pc = "mode_menu"
    /\ mode_menu("1") = "learn"
    /\ MayWork(sessions, answers)
    /\ \E ordered \in orderings :
         session' = [mode |-> "learn", ordered |-> ordered, idx |-> 0,
                     revealed |-> FALSE]
    /\ pc' = "learn"
    /\ sessions' = sessions + 1
    /\ op' = Op("learn_start")
    /\ UNCHANGED <<vocab, file, progress, category, answers, saves, call>>

\* learn_mode up to its first prompt
learn_mode_start ==
    /\ ~IsAll
    /\ LearnBegin(weighted_sample(CurWeights, Len(Words)))

\* _learn_all up to its first prompt
_learn_all_start ==
    /\ IsAll
    /\ LearnBegin(SampleLearnAll(CurWeights))

\* what the user may type at the Action prompt: quit, next, previous, Enter,
\* anything else
LearnInputs == {"q", "n", "p", "", "x"}

\* a Previous that stops at the first card
PreviousCardClamped(idx, len) == Max(idx - 1, 0)
\* idx = (idx + 1) % len(ordered) and idx = (idx - 1) % len(ordered)
NextCard(idx, len) == (idx + 1) % len
PreviousCard(idx, len) == (idx - 1) % len

\* a Next that writes a new record over the one the word has
MarkReset(prog, key) == [prog EXCEPT !.words = (key :> NewEntry) @@ prog.words]
\* a Next that marks nothing
MarkNothing(prog, key) == prog
\* "n" marks the card on display as seen, then moves on
MarkSeen(prog, key) == [prog EXCEPT !.words = setdefault(prog.words, key)]

\* one pass of the loop of learn_mode / _learn_all, from the prompt on
LearnStep(action) ==
    /\ pc = "learn"
    /\ LET len == Len(session.ordered)
           key == get_word_key(CatOf(vocab, category, LearnWord), LearnWord.de)
       IN  IF action = "q"
           THEN /\ pc' = "mode_menu"
                /\ session' = NoSession
                /\ progress' = progress
           ELSE IF action = "n"
           THEN /\ pc' = pc
                /\ progress' = MarkSeen(progress, key)
                /\ session' = [session EXCEPT !.idx = NextCard(session.idx, len),
                                              !.revealed = FALSE]
           ELSE IF action = "p"
           THEN /\ pc' = pc
                /\ progress' = progress
                /\ session' = [session EXCEPT !.idx = PreviousCard(session.idx, len),
                                              !.revealed = FALSE]
           ELSE /\ pc' = pc
                /\ progress' = progress
                /\ session' = [session EXCEPT !.revealed = TRUE]
    /\ op' = [name |-> "learn", action |-> action]
    /\ UNCHANGED <<vocab, file, category, sessions, answers, saves, call>>

learn_mode_input == ~IsAll /\ \E action \in LearnInputs : LearnStep(action)
_learn_all_input == IsAll /\ \E action \in LearnInputs : LearnStep(action)

----------------------------------------------------------------------------
(* Grading of a finished Quiz or Type session *)

\* int(score / n_questions * 100)
Percent(score, n) == (100 * score) \div n

Grade(pct) ==
    IF pct = 100 THEN "perfekt"
    ELSE IF pct >= 70 THEN "sehr gut"
    ELSE IF pct >= 50 THEN "gut"
    ELSE "weiter"

Finished(mode, questions, n, score) ==
    [mode |-> mode, questions |-> questions, n_questions |-> n,
     asked |-> Len(questions), score |-> score, pct |-> Percent(score, n),
     grade |-> Grade(Percent(score, n)),
     xp_earned |-> score * (IF mode = "quiz" THEN XpQuiz ELSE XpType)]

\* scoring that gives the points for every answer, right or wrong
ScoredFlat(prog, cat, de_word, correct, gain) ==
    [record_answer(prog, cat, de_word, correct) EXCEPT !.xp = @ + gain]
\* scoring that forgets the record of the word
ScoredNoRecord(prog, cat, de_word, correct, gain) ==
    IF correct THEN [prog EXCEPT !.xp = @ + gain] ELSE prog
\* scoring that takes the points back on a wrong answer
ScoredPenalty(prog, cat, de_word, correct, gain) ==
    LET recorded == record_answer(prog, cat, de_word, correct)
    IN  [recorded EXCEPT !.xp = IF correct THEN @ + gain ELSE @ - gain]
\* the answer scored: the record of the word, then the points
Scored(prog, cat, de_word, correct, gain) ==
    LET recorded == record_answer(prog, cat, de_word, correct)
    IN  IF correct THEN [recorded EXCEPT !.xp = @ + gain] ELSE recorded

----------------------------------------------------------------------------
(* Quiz mode (multiple choice) *)

\* a quiz that asks every question from English to German
QuizSideFixed(qi) == "de"
\* EN -> DE on odd questions, DE -> EN on even ones: the side of the answer
QuizSide(qi) == IF qi % 2 = 1 THEN "de" ELSE "en"
OtherSide(side) == IF side = "de" THEN "en" ELSE "de"

\* the program at the prompt of question qi, or at the result panel
QuizAt(questions, n, qi, score) ==
    IF qi > Len(questions)
    THEN {[pc |-> "quiz_done", session |-> Finished("quiz", questions, n, score)]}
    ELSE LET word    == Words[questions[qi]]
             side    == QuizSide(qi)
             correct == word[side]
             lists   == IF IsAll THEN PlainChoices(Words, side, correct)
                        ELSE QuizChoices(Words, side, correct)
         IN  {[pc |-> "quiz",
               session |-> [mode |-> "quiz", questions |-> questions,
                            n_questions |-> n, qi |-> qi, score |-> score,
                            side |-> side, prompt_text |-> word[OtherSide(side)],
                            correct_answer |-> correct, choices |-> c]] :
                c \in lists}

\* a guard that lets a list of one word through
TooFewNone(words) == Len(words) < 1
\* if len(words) < 2: "not enough words"
TooFew(words) == Len(words) < 2

QuizBegin(batches) ==
    /\ pc = "mode_menu"
    /\ mode_menu("2") = "quiz"
    /\ MayWork(sessions, answers)
    /\ IF TooFew(Words)
       THEN pc' = "quiz_few" /\ session' = NoSession
       ELSE \E questions \in batches :
              \E at \in QuizAt(questions, n_questions(Words), 1, 0) :
                 pc' = at.pc /\ session' = Started(at.session, progress)
    /\ sessions' = sessions + 1
    /\ op' = Op("quiz_start")
    /\ UNCHANGED <<vocab, file, progress, category, answers, saves, call>>

\* quiz_mode up to its first prompt
quiz_mode_start ==
    /\ ~IsAll
    /\ QuizBegin(weighted_sample(CurWeights, n_questions(Words)))

\* _quiz_all up to its first prompt
_quiz_all_start ==
    /\ IsAll
    /\ QuizBegin(SampleBatchAll(CurWeights, n_questions(Words)))

\* the answer to question qi: scored and saved, then time.sleep(1.2)
QuizStep(answer) ==
    /\ pc = "quiz"
    /\ MayWork(sessions, answers)
    /\ answer \in 1..Len(session.choices)
    /\ LET word     == Words[session.questions[session.qi]]
           selected == session.choices[answer]
           correct  == selected = session.correct_answer
       IN  /\ progress' = Scored(progress, CatOf(vocab, category, word), word.de,
                                 correct, XpQuiz)
           /\ session' = Keep([mode |-> "quiz", questions |-> session.questions,
                               n_questions |-> session.n_questions, qi |-> session.qi,
                               score |-> IF correct THEN session.score + 1
                                         ELSE session.score])
           /\ op' = [name |-> "quiz", key |-> get_word_key(CatOf(vocab, category, word),
                                                          word.de),
                     correct |-> correct, input |-> answer]
    /\ file' = save_progress(progress')
    /\ saves' = saves + 1
    /\ answers' = answers + 1
    /\ pc' = "quiz_pause"
    /\ UNCHANGED <<vocab, category, sessions, call>>

quiz_mode_answer == ~IsAll /\ \E answer \in 1..FullChoices : QuizStep(answer)
_quiz_all_answer == IsAll /\ \E answer \in 1..FullChoices : QuizStep(answer)

\* after the pause: the next question, or the result panel
QuizNext ==
    /\ pc = "quiz_pause"
    /\ \E at \in QuizAt(session.questions, session.n_questions, session.qi + 1,
                        session.score) :
         pc' = at.pc /\ session' = Keep(at.session)
    /\ op' = Op("quiz_next")
    /\ UNCHANGED <<vocab, file, progress, category, sessions, answers, saves, call>>

quiz_mode_next == ~IsAll /\ QuizNext
_quiz_all_next == IsAll /\ QuizNext

----------------------------------------------------------------------------
(* Type It mode *)

\* what the user may type
TypedInputs == {"", "sein", "hören", " HÖREN ", "hoeren", "tun", "machen"}

TypeAt(questions, n, qi, score) ==
    IF qi > Len(questions)
    THEN [pc |-> "type_done", session |-> Finished("type", questions, n, score)]
    ELSE [pc |-> "type",
          session |-> [mode |-> "type", questions |-> questions, n_questions |-> n,
                       qi |-> qi, score |-> score]]

TypeBegin(batches) ==
    /\ pc = "mode_menu"
    /\ mode_menu("3") = "type"
    /\ MayWork(sessions, answers)
    /\ \E questions \in batches :
         LET at == TypeAt(questions, n_questions(Words), 1, 0)
         IN  pc' = at.pc /\ session' = Started(at.session, progress)
    /\ sessions' = sessions + 1
    /\ op' = Op("type_start")
    /\ UNCHANGED <<vocab, file, progress, category, answers, saves, call>>

\* type_it_mode up to its first prompt
type_it_mode_start ==
    /\ ~IsAll
    /\ TypeBegin(weighted_sample(CurWeights, n_questions(Words)))

\* _type_all up to its first prompt
_type_all_start ==
    /\ IsAll
    /\ TypeBegin(SampleBatchAll(CurWeights, n_questions(Words)))

Matches(user_input, de) ==
    normalize_german(Spell(user_input)) = normalize_german(Spell(de))

\* the answer to question qi: scored and saved, then time.sleep(1.2)
TypeStep(user_input) ==
    /\ pc = "type"
    /\ MayWork(sessions, answers)
    /\ LET word    == Words[session.questions[session.qi]]
           correct == Matches(user_input, word.de)
       IN  /\ progress' = Scored(progress, CatOf(vocab, category, word), word.de,
                                 correct, XpType)
           /\ session' = [session EXCEPT
                            !.score = IF correct THEN @ + 1 ELSE @]
           /\ op' = [name |-> "type", key |-> get_word_key(CatOf(vocab, category, word),
                                                          word.de),
                     correct |-> correct, input |-> user_input]
    /\ file' = save_progress(progress')
    /\ saves' = saves + 1
    /\ answers' = answers + 1
    /\ pc' = "type_pause"
    /\ UNCHANGED <<vocab, category, sessions, call>>

type_it_mode_answer == ~IsAll /\ \E user_input \in TypedInputs : TypeStep(user_input)
_type_all_answer == IsAll /\ \E user_input \in TypedInputs : TypeStep(user_input)

\* after the pause: the next question, or the result panel
TypeNext ==
    /\ pc = "type_pause"
    /\ LET at == TypeAt(session.questions, session.n_questions, session.qi + 1,
                        session.score)
       IN  pc' = at.pc /\ session' = Keep(at.session)
    /\ op' = Op("type_next")
    /\ UNCHANGED <<vocab, file, progress, category, sessions, answers, saves, call>>

type_it_mode_next == ~IsAll /\ TypeNext
_type_all_next == IsAll /\ TypeNext

----------------------------------------------------------------------------
(* Speed round.  The clock is read at three places; each reading may find  *)
(* the 60 seconds over, and a reading that does ends the round.            *)

\* what the user may type at the Answer prompt: not a number, or an integer
SpeedInputs ==
    {[parsed |-> FALSE, value |-> 0]}
        \cup {[parsed |-> TRUE, value |-> k] :
                k \in (0 - FullChoices - 1)..(FullChoices + 1)}

\* a selection that takes an answer that is no number for the first option
SelectedFirst(choices, input) ==
    IF ~input.parsed \/ input.value = 1 THEN choices[1]
    ELSE IF 1 < input.value /\ input.value <= Len(choices) THEN choices[input.value]
    ELSE ""

\* choices[int(answer) - 1], "" on ValueError or IndexError; Python counts a
\* negative index from the end of the list
Selected(choices, input) ==
    LET k == input.value - 1
    IN  IF ~input.parsed THEN ""
        ELSE IF 0 <= k /\ k < Len(choices) THEN choices[k + 1]
        ELSE IF k < 0 /\ 0 - Len(choices) <= k THEN choices[Len(choices) + k + 1]
        ELSE ""

\* an end of the round that stores the score whether it beats the best or not
SpeedEndOverwrite(prog, score, total) ==
    [pc |-> "speed_done",
     session |-> [mode |-> "speed", score |-> score, total |-> total,
                  is_new_best |-> TRUE, xp_earned |-> score * XpSpeed],
     progress |-> [prog EXCEPT !.best_speed = score],
     saved |-> TRUE]

\* the end of the round: the results, best_speed updated when beaten
SpeedEnd(prog, score, total) ==
    LET is_new_best == score > prog.best_speed
    IN  [pc |-> "speed_done",
         session |-> [mode |-> "speed", score |-> score, total |-> total,
                      is_new_best |-> is_new_best, xp_earned |-> score * XpSpeed],
         progress |-> IF is_new_best THEN [prog EXCEPT !.best_speed = score] ELSE prog,
         saved |-> is_new_best]

\* the side the options are taken from
SpeedPoolSide(word, correct_answer, side) ==
    IF IsAll THEN side
    ELSE IF correct_answer = word.de THEN "de" ELSE "en"

\* one pass of the loop from its top to the Answer prompt, or to the end of
\* the round when the clock is found over at the top or before prompting
SpeedLoop(prog, score, total) ==
    {SpeedEnd(prog, score, total), SpeedEnd(prog, score, total + 1)}
        \cup UNION {UNION {
               {[pc |-> "speed",
                 session |-> [mode |-> "speed", score |-> score, total |-> total + 1,
                              word |-> i, side |-> side,
                              prompt_text |-> Words[i][OtherSide(side)],
                              correct_answer |-> Words[i][side], choices |-> c],
                 progress |-> prog,
                 saved |-> FALSE] :
                  c \in PlainChoices(Words,
                                     SpeedPoolSide(Words[i], Words[i][side], side),
                                     Words[i][side])} :
               side \in {"de", "en"}} :
             i \in Drawable(Weights(prog, vocab, category, Words))}

SpeedBegin ==
    /\ pc = "mode_menu"
    /\ mode_menu("4") = "speed"
    /\ MayWork(sessions, answers)
    /\ IF TooFew(Words)
       THEN pc' = "speed_few" /\ session' = NoSession
       ELSE pc' = "speed_ready" /\ session' = Started([mode |-> "speed"], progress)
    /\ sessions' = sessions + 1
    /\ op' = Op("speed_start")
    /\ UNCHANGED <<vocab, file, progress, category, answers, saves, call>>

\* speed_round / _speed_all up to the "Press Enter to start" prompt
speed_round_start == ~IsAll /\ SpeedBegin
_speed_all_start == IsAll /\ SpeedBegin

\* the loop from its top to the Answer prompt or to the end of the round
SpeedLoopFrom(at) ==
    /\ pc = at
    /\ \E nxt \in SpeedLoop(progress, IF at = "speed_ready" THEN 0 ELSE session.score,
                            IF at = "speed_ready" THEN 0 ELSE session.total) :
         /\ pc' = nxt.pc
         /\ session' = Keep(nxt.session)
         /\ progress' = nxt.progress
         /\ file' = IF nxt.saved THEN save_progress(nxt.progress) ELSE file
         /\ saves' = IF nxt.saved THEN saves + 1 ELSE saves
    /\ UNCHANGED <<vocab, category, sessions, answers, call>>

\* Enter at the start prompt: the clock starts, the loop runs to its first prompt
SpeedGo == SpeedLoopFrom("speed_ready") /\ op' = Op("speed_go")

speed_round_go == ~IsAll /\ SpeedGo
_speed_all_go == IsAll /\ SpeedGo

\* an end of the round that scores the late answer as a wrong one first
SpeedLateScored ==
    /\ pc = "speed"
    /\ LET word   == Words[session.word]
           scored == Scored(progress, CatOf(vocab, category, word), word.de,
                            FALSE, XpSpeed)
           nxt    == SpeedEnd(scored, session.score, session.total)
       IN  /\ pc' = nxt.pc
           /\ session' = Keep(nxt.session)
           /\ progress' = nxt.progress
           /\ file' = save_progress(nxt.progress)
           /\ saves' = saves + 1
    /\ op' = Op("speed_late")
    /\ UNCHANGED <<vocab, category, sessions, answers, call>>

\* the clock is over when the answer arrives: the round ends, nothing is scored
SpeedLate ==
    /\ pc = "speed"
    /\ LET nxt == SpeedEnd(progress, session.score, session.total)
       IN  /\ pc' = nxt.pc
           /\ session' = Keep(nxt.session)
           /\ progress' = nxt.progress
           /\ file' = IF nxt.saved THEN save_progress(nxt.progress) ELSE file
           /\ saves' = IF nxt.saved THEN saves + 1 ELSE saves
    /\ op' = Op("speed_late")
    /\ UNCHANGED <<vocab, category, sessions, answers, call>>

\* the answer arrives in time: scored and saved, then time.sleep(0.4)
SpeedStep(input) ==
    /\ pc = "speed"
    /\ MayWork(sessions, answers)
    /\ LET word     == Words[session.word]
           selected == Selected(session.choices, input)
           correct  == selected = session.correct_answer
       IN  /\ progress' = Scored(progress, CatOf(vocab, category, word), word.de,
                                 correct, XpSpeed)
           /\ session' = Keep([mode |-> "speed", total |-> session.total,
                               score |-> IF correct THEN session.score + 1
                                         ELSE session.score])
           /\ op' = [name |-> "speed", key |-> get_word_key(CatOf(vocab, category, word),
                                                           word.de),
                     correct |-> correct, input |-> input]
    /\ file' = save_progress(progress')
    /\ saves' = saves + 1
    /\ answers' = answers + 1
    /\ pc' = "speed_pause"
    /\ UNCHANGED <<vocab, category, sessions, call>>

speed_round_answer ==
    ~IsAll /\ (SpeedLate \/ \E input \in SpeedInputs : SpeedStep(input))
_speed_all_answer ==
    IsAll /\ (SpeedLate \/ \E input \in SpeedInputs : SpeedStep(input))

\* after the pause: the loop again
SpeedNext == SpeedLoopFrom("speed_pause") /\ op' = Op("speed_next")

speed_round_next == ~IsAll /\ SpeedNext
_speed_all_next == IsAll /\ SpeedNext

----------------------------------------------------------------------------
(* An external interrupt: KeyboardInterrupt is raised where the program    *)
(* waits, at a prompt or in a time.sleep                                    *)

Prompts ==
    {"main_menu", "mode_menu", "learn", "quiz", "type", "speed_ready", "speed",
     "no_words", "quiz_few", "speed_few", "quiz_done", "type_done", "speed_done"}
Pauses == {"quiz_pause", "type_pause", "speed_pause"}

\* an interrupt that no handler catches: the traceback, exit status 1
InterruptUncaught(at) == "crashed"
\* except KeyboardInterrupt: the farewell, then sys.exit(0)
on_interrupt(at) == "exit0"

\* no function between the prompt and the entry point catches the interrupt:
\* the stack unwinds, the locals of the modes are gone, nothing is written
Interrupt ==
    /\ pc \in Prompts \cup Pauses
    /\ pc' = on_interrupt(pc)
    /\ category' = ""
    /\ session' = NoSession
    /\ op' = [name |-> "interrupt", at |-> pc]
    /\ UNCHANGED <<vocab, file, progress, sessions, answers, saves, call>>

----------------------------------------------------------------------------
(* The program *)

Next ==
    \/ \E day \in TodayChoices : Main(day)
    \/ \E choice \in MainMenuInputs : MainMenu(choice)
    \/ ModeMenuBack
    \/ PressEnter
    \/ learn_mode_start
    \/ _learn_all_start
    \/ learn_mode_input
    \/ _learn_all_input
    \/ quiz_mode_start
    \/ _quiz_all_start
    \/ quiz_mode_answer
    \/ _quiz_all_answer
    \/ quiz_mode_next
    \/ _quiz_all_next
    \/ type_it_mode_start
    \/ _type_all_start
    \/ type_it_mode_answer
    \/ _type_all_answer
    \/ type_it_mode_next
    \/ _type_all_next
    \/ speed_round_start
    \/ _speed_all_start
    \/ speed_round_go
    \/ _speed_all_go
    \/ speed_round_answer
    \/ _speed_all_answer
    \/ speed_round_next
    \/ _speed_all_next
    \/ Interrupt

Spec == Init /\ [][Next]_vars

----------------------------------------------------------------------------
(* record_answer called directly, with any category and word *)

\* the program's variables while a function is run on its own
Idle ==
    /\ vocab = VocabNone
    /\ file = MissingFile
    /\ pc = "call"
    /\ category = ""
    /\ session = NoSession
    /\ sessions = 0
    /\ saves = 0
    /\ op = Op("init")

\* the arguments of the calls; two of the pairs give the same key
StoreCategories == {"verbs", "verbs:an"}
StoreWords == {"hören", "an:hören"}

StoreInit ==
    /\ Idle
    /\ progress \in {FreshProgress, VeteranProgress}
    /\ answers = 0
    /\ call = [fn |-> "record_answer"]

RecordAnswerCall(cat, de_word, correct) ==
    /\ pc = "call"
    /\ call.fn = "record_answer"
    /\ answers < MaxCalls
    /\ progress' = record_answer(progress, cat, de_word, correct)
    /\ answers' = answers + 1
    /\ op' = [name |-> "record_answer", key |-> get_word_key(cat, de_word),
              category |-> cat, de_word |-> de_word, correct |-> correct]
    /\ UNCHANGED <<vocab, file, pc, category, session, sessions, saves, call>>

StoreNext ==
    \E cat \in StoreCategories, de_word \in StoreWords, correct \in BOOLEAN :
        RecordAnswerCall(cat, de_word, correct)

\* the program, and record_answer called on its own
SpecStore == (Init \/ StoreInit) /\ [][Next \/ StoreNext]_vars

----------------------------------------------------------------------------
(* weighted_sample run on its own, one pass of its draw loop at a time *)

SampleWordLists ==
    {<<>>, VocabSingle["pronouns"], VocabShared["verbs"], VocabSynonyms["verbs"]}

SampleInit ==
    /\ Idle
    /\ progress \in {FreshProgress, VeteranProgress}
    /\ answers = 0
    /\ \E words \in SampleWordLists, n \in 0..MaxSampleN :
         call = [fn |-> "weighted_sample", category |-> "verbs", words |-> words,
                 n |-> n, st |-> LoopStart, returned |-> FALSE, padded |-> FALSE,
                 result |-> <<>>]

SampleWeights == Weights(progress, vocab, call.category, call.words)
\* n = min(n, len(words))
SampleN == Min(call.n, Len(call.words))

\* one pass of the draw loop
SampleDraw(idx) ==
    /\ call.fn = "weighted_sample"
    /\ ~call.returned
    /\ call.words # <<>>
    /\ Drawing(call.st, SampleN)
    /\ idx \in Drawable(SampleWeights)
    /\ call' = [call EXCEPT !.st = DrawStep(call.st, idx)]
    /\ UNCHANGED <<vocab, file, progress, pc, category, session, sessions, answers,
                   saves, op>>

\* the early return for an empty list, or the padding and the return
SampleReturn ==
    /\ call.fn = "weighted_sample"
    /\ ~call.returned
    /\ call.words = <<>> \/ ~Drawing(call.st, SampleN)
    /\ \E result \in (IF call.words = <<>> THEN {<<>>}
                      ELSE Pad(call.st, Len(call.words), SampleN)) :
         call' = [call EXCEPT !.returned = TRUE, !.result = result,
                              !.padded = call.words # <<>>
                                           /\ Len(call.st.result) < SampleN]
    /\ UNCHANGED <<vocab, file, progress, pc, category, session, sessions, answers,
                   saves, op>>

SampleNext == (\E idx \in 1..FullChoices : SampleDraw(idx)) \/ SampleReturn

SpecSample == SampleInit /\ [][SampleNext]_vars

\* the function runs on: a pass of the loop or the return is taken when it
\* can be
SpecSampleFair == SpecSample /\ WF_vars(SampleNext)

----------------------------------------------------------------------------
(* The comparison of type_it_mode run on its own: a typed text against an   *)
(* expected German text *)

NormalizeTexts ==
    {"", "für", "Für", "FÜR", "fur", " FUR ", "fuer", "f ur", "furs", "fu",
     "Müller", "MULLER", "Mueller", "muller", "Fuß", "fuss", "fus"}

NormalizeInit ==
    /\ Idle
    /\ progress = FreshProgress
    /\ answers = 0
    /\ \E user_input \in NormalizeTexts, de \in NormalizeTexts :
         call = [fn |-> "normalize_german", user_input |-> user_input, de |-> de,
                 compared |-> FALSE, left |-> <<>>, right |-> <<>>, correct |-> FALSE]

\* normalize_german(user_input) == normalize_german(de)
NormalizeCompare ==
    /\ call.fn = "normalize_german"
    /\ ~call.compared
    /\ call' = [call EXCEPT !.compared = TRUE,
                            !.left = normalize_german(Spell(call.user_input)),
                            !.right = normalize_german(Spell(call.de)),
                            !.correct = Matches(call.user_input, call.de)]
    /\ UNCHANGED <<vocab, file, progress, pc, category, session, sessions, answers,
                   saves, op>>

SpecNormalize == NormalizeInit /\ [][NormalizeCompare]_vars

----------------------------------------------------------------------------
(* Properties *)

ScoringOps == {"record_answer", "quiz", "type", "speed"}
AnswerOps == {"quiz", "type", "speed"}

\* a record that does not exist yet counts as mastery 0 with both counters 0
RecordOf(prog, key) ==
    IF key \in DOMAIN prog.words THEN prog.words[key]
    ELSE [mastery |-> 0, correct |-> 0, wrong |-> 0]

\* C1: after any sequence of record_answer calls with any category, word and
\* outcome, and after any sequence of Learn, Quiz, Type and Speed actions,
\* every mastery record has 0 <= mastery <= 5.
C1_MasteryInRange ==
    \A key \in DOMAIN progress.words :
        0 <= progress.words[key].mastery /\ progress.words[key].mastery <= 5

\* a correct answer has been recorded on a word that was at mastery 5 already
C1_Witness ==
    /\ op.name \in ScoringOps
    /\ op.correct
    /\ progress.words[op.key].mastery = 5
    /\ progress.words[op.key].correct >= 6

\* C2: record_answer on a record with mastery m: a correct answer adds 1 to
\* the correct count, makes the mastery min(m+1, 5) and leaves the wrong count;
\* a wrong one adds 1 to the wrong count, makes the mastery max(m-1, 0) and
\* leaves the correct count; an absent record is first created with mastery 0
\* and both counters 0; no other record and no other field of the document
\* changes.
C2_RecordAnswerEffect ==
    [][op'.name = "record_answer" =>
         LET key    == op'.key
             before == RecordOf(progress, key)
             after  == progress'.words[key]
             m      == before.mastery
         IN  /\ DOMAIN progress'.words = DOMAIN progress.words \cup {key}
             /\ IF op'.correct
                THEN /\ after.correct = before.correct + 1
                     /\ after.mastery = (IF m + 1 < 5 THEN m + 1 ELSE 5)
                     /\ after.wrong = before.wrong
                ELSE /\ after.wrong = before.wrong + 1
                     /\ after.mastery = (IF m - 1 > 0 THEN m - 1 ELSE 0)
                     /\ after.correct = before.correct
             /\ DOMAIN after = {"mastery", "correct", "wrong"}
             /\ \A other \in DOMAIN progress.words \ {key} :
                    progress'.words[other] = progress.words[other]
             /\ progress'.xp = progress.xp
             /\ progress'.streak = progress.streak
             /\ progress'.last_played = progress.last_played
             /\ progress'.best_speed = progress.best_speed
             /\ DOMAIN progress' = DOMAIN progress]_vars

\* a first wrong answer on an absent record, next to a record of another word
C2_Witness ==
    /\ op.name = "record_answer"
    /\ ~op.correct
    /\ progress.words[op.key] = [mastery |-> 0, correct |-> 0, wrong |-> 1]
    /\ Cardinality(DOMAIN progress.words) >= 2

\* C3: weighted_sample returns, for every outcome of its random draws, the
\* outcome where the attempt cap is reached and the padding is used included,
\* exactly min(n, |words|) entries from pairwise distinct indices of words;
\* with n = |words| the result is a permutation of words, and for an empty
\* list the result is empty.
C3_SampleSize ==
    (call.fn = "weighted_sample" /\ call.returned) =>
        LET result == call.result
            len    == Len(call.words)
        IN  /\ Len(result) = (IF call.n < len THEN call.n ELSE len)
            /\ \A i \in DOMAIN result : result[i] \in 1..len
            /\ \A i, j \in DOMAIN result : i # j => result[i] # result[j]
            /\ call.n = len => {result[i] : i \in DOMAIN result} = 1..len
            /\ len = 0 => result = <<>>

\* the cap was reached with one word drawn, and the padding filled the rest
C3_Witness ==
    /\ call.fn = "weighted_sample"
    /\ call.returned
    /\ call.padded
    /\ call.st.attempts = 3 * AttemptFactor
    /\ Len(call.st.result) = 1
    /\ Len(call.result) = 3

\* C4: every Quiz session and every Type session, in one category and in all
\* categories alike, asks exactly min(10, |words|) questions, for every
\* outcome of the random draws that select the batch.
C4_AsksFullBatch ==
    pc \in {"quiz_done", "type_done"} =>
        session.asked = (IF 10 < Len(Words) THEN 10 ELSE Len(Words))

\* C5: every multiple-choice list of a Quiz or Speed question, over a word
\* list of at least 2 entries, holds the correct answer exactly once and no
\* two equal options.
C5_ChoicesDistinct ==
    (pc \in {"quiz", "speed"} /\ Len(Words) >= 2) =>
        LET c == session.choices
        IN  /\ Cardinality({i \in DOMAIN c : c[i] = session.correct_answer}) = 1
            /\ \A i, j \in DOMAIN c : i # j => c[i] # c[j]

\* the distinct values on the answer's side that differ from the correct answer
Alternatives ==
    {Words[i][session.side] : i \in DOMAIN Words} \ {session.correct_answer}

\* C6: a multiple-choice list has 1 + min(3, d) options, d the number of
\* distinct alternative values different from the correct answer: 4 options
\* when d >= 3, 2 when d = 1, 3 when d = 2.
C6_OptionCount ==
    pc \in {"quiz", "speed"} =>
        LET d == Cardinality(Alternatives)
        IN  Len(session.choices) = 1 + (IF d < 3 THEN d ELSE 3)

\* C7: across every step of every execution (menus, Learn, Quiz, Type, Speed,
\* in any order) xp never decreases, and it stays a non-negative integer.
C7_XpNeverDecreases ==
    [][/\ progress.xp \in Nat
       /\ progress'.xp \in Nat
       /\ progress'.xp >= progress.xp]_vars

\* the points of a quiz answer have been added to those of an earlier run
C7_Witness ==
    /\ pc = "quiz_pause"
    /\ op.correct
    /\ progress.xp = VeteranProgress.xp + 10

\* the word asked at the prompt the program is waiting at
AskedWord == Words[session.questions[session.qi]]
\* its record is kept under its own category and its German text
AskedKey ==
    get_word_key(IF category = "all" THEN AskedWord["_category"] ELSE category,
                 AskedWord.de)
\* the answer op'.input is right
AnsweredRight ==
    IF pc = "quiz" THEN session.choices[op'.input] = session.correct_answer
    ELSE normalize_german(Spell(op'.input)) = normalize_german(Spell(AskedWord.de))

\* C8: a correctly answered question adds exactly 10 xp in Quiz and 15 in
\* Type and raises the asked word's mastery by one step (0 to 1 for an unseen
\* word); a wrongly answered one leaves xp unchanged and lowers the asked
\* word's mastery by one step, floored at 0.  The record updated is that of
\* the asked word, whatever the direction of the question.
C8_AnswerScoring ==
    [][(pc \in {"quiz", "type"} /\ answers' = answers + 1) =>
         LET m      == RecordOf(progress, AskedKey).mastery
             after  == progress'.words[AskedKey]
         IN  /\ AskedKey \in DOMAIN progress'.words
             /\ IF AnsweredRight
                THEN /\ progress'.xp = progress.xp + (IF pc = "quiz" THEN 10 ELSE 15)
                     /\ after.mastery = (IF m < 5 THEN m + 1 ELSE 5)
                ELSE /\ progress'.xp = progress.xp
                     /\ after.mastery = (IF m > 0 THEN m - 1 ELSE 0)
             /\ \A other \in DOMAIN progress'.words \ {AskedKey} :
                    /\ other \in DOMAIN progress.words
                    /\ progress'.words[other] = progress.words[other]]_vars

\* the second question of a quiz, asked from German to English, answered right
\* for a word not seen before
C8_Witness ==
    /\ pc = "quiz_pause"
    /\ session.qi = 2
    /\ op.correct
    /\ progress.words[op.key] = [mastery |-> 1, correct |-> 1, wrong |-> 0]

\* C9: in Quiz, Type and Speed a scored answer is saved exactly once, at once,
\* and the saved document equals the one in memory; nothing is saved again
\* before the next question is asked, and a session that completes leaves the
\* saved document equal to the one in memory (a speed round saves once more
\* at its end when the best score is beaten).
C9_WriteThrough ==
    [][/\ answers' = answers + 1 /\ pc \in AnswerOps =>
            /\ saves' = saves + 1
            /\ file = [kind |-> "object", data |-> progress] => file' # file
            /\ file' = [kind |-> "object", data |-> progress']
            /\ pc' \in {"quiz_pause", "type_pause", "speed_pause"}
       /\ pc \in {"quiz_pause", "type_pause", "speed_pause"} =>
            /\ file' = [kind |-> "object", data |-> progress']
            /\ pc' \in AnswerOps => saves' = saves /\ progress' = progress
            /\ pc' \in {"quiz_done", "type_done"} => saves' = saves
            /\ pc' = "speed_done" =>
                 saves' = (IF progress'.best_speed # progress.best_speed
                           THEN saves + 1 ELSE saves)]_vars

\* a speed answer on a new word has been scored and saved, after the save of
\* the start of the run
C9_Witness ==
    /\ pc = "speed_pause"
    /\ saves = 2
    /\ op.key \in DOMAIN progress.words
    /\ file = [kind |-> "object", data |-> progress]

\* C10: update_streak on day T: last_played = T leaves streak and last_played
\* as they are; last_played = T - 1 day adds exactly 1 to the streak; every
\* other last_played (empty, older, anything else) makes the streak 1; in
\* every case last_played is T afterwards.
C10_UpdateStreak ==
    [][(pc = "start" /\ pc' = "main_menu") =>
         LET before == load_progress(file)
             T      == isoformat(op'.today)
             T1     == isoformat(op'.today - 1)
         IN  /\ progress'.last_played = T
             /\ before.last_played = T => progress'.streak = before.streak
             /\ before.last_played = T1 => progress'.streak = before.streak + 1
             /\ before.last_played \notin {T, T1} => progress'.streak = 1
             /\ progress'.xp = before.xp
             /\ progress'.words = before.words
             /\ progress'.best_speed = before.best_speed]_vars

\* the run starts the day after the last one: the streak of 2 has become 3
C10_Witness ==
    /\ op.name = "main"
    /\ pc = "main_menu"
    /\ progress.last_played = isoformat(op.today)
    /\ progress.streak = VeteranProgress.streak + 1

\* C11: best_speed never decreases; a Speed round that completes with score s
\* against a previous best b leaves best_speed = max(b, s), changed and saved
\* only if s > b; Learn, Quiz and Type never change best_speed.
C11_BestSpeed ==
    [][/\ progress'.best_speed >= progress.best_speed
       /\ (pc # "speed_done" /\ pc' = "speed_done") =>
            LET s == session'.score
                b == progress.best_speed
            IN  /\ progress'.best_speed = (IF s > b THEN s ELSE b)
                /\ s > b => /\ saves' = saves + 1
                            /\ file' = [kind |-> "object", data |-> progress']
                /\ s <= b => /\ progress' = progress
                             /\ saves' = saves
                             /\ file' = file
       /\ (pc \in {"learn", "quiz", "type"} \/ pc' \in {"learn", "quiz", "type"}) =>
            progress'.best_speed = progress.best_speed]_vars

\* a round of two right answers has beaten the best of 1 of an earlier run
C11_Witness ==
    /\ pc = "speed_done"
    /\ session.score = 2
    /\ session.is_new_best
    /\ progress.best_speed = 2
    /\ file = [kind |-> "object", data |-> progress]

\* the score of the Speed round so far
SpeedScore == IF pc = "speed_ready" THEN 0 ELSE session.score

\* C12: in a Speed round no answer is scored once the 60 seconds have passed:
\* a round that ends at the check before prompting or at the check after the
\* input ends with score, xp and every mastery record as they were before the
\* item was drawn, and nothing is saved for the item (the only write that can
\* follow is that of a new best score).
C12_DeadlineEndsRound ==
    [][(pc \in {"speed_ready", "speed_pause", "speed"} /\ pc' = "speed_done") =>
         /\ session'.score = SpeedScore
         /\ progress'.xp = progress.xp
         /\ progress'.words = progress.words
         /\ progress' = [progress EXCEPT !.best_speed = progress'.best_speed]
         /\ answers' = answers
         /\ IF progress' = progress
            THEN saves' = saves /\ file' = file
            ELSE saves' = saves + 1 /\ progress'.best_speed = SpeedScore]_vars

\* the second item of a round was answered after the deadline: the round has
\* ended with the one answer scored before, and one record
C12_Witness ==
    /\ pc = "speed_done"
    /\ op.name = "speed_late"
    /\ answers = 1
    /\ session.total = 2
    /\ Cardinality(DOMAIN progress.words) = 1

\* C13: a Speed round whose deadline check fires before the first prompt is
\* shown (at the top of the loop, or just before prompting) reports zero items
\* attempted and score 0, and best_speed is unchanged.
C13_NothingAttempted ==
    [][(pc = "speed_ready" /\ pc' = "speed_done") =>
         /\ session'.total = 0
         /\ session'.score = 0
         /\ progress'.best_speed = progress.best_speed]_vars

\* the letters of a text as C14 describes them, one character at a time: the
\* lowercase letter, with u, o, a for the umlauts and ss for the sharp s
FoldedChar(c) ==
    CASE c \in {"ü", "Ü", "u", "U"} -> <<"u">>
      [] c \in {"ö", "Ö", "o", "O"} -> <<"o">>
      [] c \in {"ä", "Ä", "a", "A"} -> <<"a">>
      [] c = "ß" -> <<"s", "s">>
      [] c = "F" -> <<"f">>
      [] c = "R" -> <<"r">>
      [] c = "M" -> <<"m">>
      [] c = "L" -> <<"l">>
      [] c = "E" -> <<"e">>
      [] OTHER -> <<c>>

\* the text without the blanks before its first and after its last letter
Trimmed(s) ==
    LET letters == {i \in DOMAIN s : s[i] # " "}
    IN  IF letters = {} THEN <<>>
        ELSE SubSeq(s, CHOOSE i \in letters : \A j \in letters : i <= j,
                       CHOOSE i \in letters : \A j \in letters : i >= j)

RECURSIVE Folded(_)
Folded(s) == IF s = <<>> THEN <<>> ELSE FoldedChar(Head(s)) \o Folded(Tail(s))

\* C14: a typed answer is scored correct if and only if it equals the expected
\* German text after both are lowercased, stripped of the whitespace around
\* them and rewritten with u, o, a, ss for the umlauts and the sharp s: "für"
\* matches "fur" and " FUR ", it does not match "fuer", and no other
\* difference (inner whitespace, extra or missing letters) is tolerated.
C14_TypedMatch ==
    (call.fn = "normalize_german" /\ call.compared) =>
        /\ call.correct <=>
             Folded(Trimmed(Spell(call.user_input))) = Folded(Trimmed(Spell(call.de)))
        /\ (call.de = "für" /\ call.user_input \in {"fur", " FUR "}) => call.correct
        /\ (call.de = "für" /\ call.user_input \in {"fuer", "f ur", "furs", "fu", ""})
             => ~call.correct

\* " FUR " has been typed for "für" and was found right
C14_Witness ==
    /\ call.fn = "normalize_german"
    /\ call.compared
    /\ call.de = "für"
    /\ call.user_input = " FUR "
    /\ call.correct

\* C15 as the specification states it: "Müller" does not match "MULLER"
C15_MullerDiffers ==
    (call.fn = "normalize_german" /\ call.compared
        /\ call.user_input = "Müller" /\ call.de = "MULLER") => ~call.correct

\* C15: "Müller" and its all-uppercase spelling without the diacritic,
\* "MULLER", normalise to the same text, "muller", so they match, in either
\* role; "Mueller" matches neither.
C15_MullerMatches ==
    (call.fn = "normalize_german" /\ call.compared) =>
        /\ (call.user_input \in {"Müller", "MULLER"} /\ call.de \in {"Müller", "MULLER"})
             => (call.correct /\ call.left = <<"m", "u", "l", "l", "e", "r">>
                              /\ call.right = call.left)
        /\ (call.user_input = "Mueller" /\ call.de \in {"Müller", "MULLER"})
             => ~call.correct

\* "Müller" has been compared with "MULLER" and was found equal
C15_Witness ==
    /\ call.fn = "normalize_german"
    /\ call.compared
    /\ call.user_input = "Müller"
    /\ call.de = "MULLER"
    /\ call.correct

\* the card after and the card before card i of N, as C16 describes them
CardAfter(i, N) == IF i + 1 = N THEN 0 ELSE i + 1
CardBefore(i, N) == IF i = 0 THEN N - 1 ELSE i - 1
RECURSIVE CardAfterTimes(_, _, _)
CardAfterTimes(i, N, k) == IF k = 0 THEN i ELSE CardAfterTimes(CardAfter(i, N), N, k - 1)

\* C16: in Learn mode over N >= 1 cards the index stays in 0..N-1; Next goes
\* from i to (i+1) mod N and Previous to (i-1) mod N, both hiding the answer;
\* any other input but quit reveals it and leaves the index; Quit ends the
\* mode.  So Next then Previous comes back to the card, and so do N Next.
C16_LearnNavigation ==
    [][(pc = "learn" /\ op'.name = "learn") =>
         LET N == Len(session.ordered)
             i == session.idx
             a == op'.action
         IN  /\ N >= 1
             /\ i \in 0..(N - 1)
             /\ a = "q" <=> pc' # "learn"
             /\ a = "q" => pc' = "mode_menu"
             /\ a # "q" => session'.ordered = session.ordered
             /\ a = "n" => session'.idx = CardAfter(i, N) /\ ~session'.revealed
             /\ a = "p" => session'.idx = CardBefore(i, N) /\ ~session'.revealed
             /\ a \notin {"q", "n", "p"} => session'.idx = i /\ session'.revealed
             /\ CardBefore(CardAfter(i, N), N) = i
             /\ CardAfterTimes(i, N, N) = i]_vars

\* Previous on the first of three cards has led to the last one
C16_Witness ==
    /\ pc = "learn"
    /\ op.name = "learn"
    /\ op.action = "p"
    /\ Len(session.ordered) = 3
    /\ session.idx = 2
    /\ ~session.revealed

\* the key of the record of card i of the ordering, i counting from 0
CardKey(i) ==
    LET word == Words[session.ordered[i + 1]]
    IN  get_word_key(IF category = "all" THEN word["_category"] ELSE category,
                     word.de)

ZeroRecord == [mastery |-> 0, correct |-> 0, wrong |-> 0]

C18_LearnScoresNothing ==
    [][pc = "learn" =>
         /\ progress'.xp = progress.xp
         /\ progress'.streak = progress.streak
         /\ progress'.last_played = progress.last_played
         /\ progress'.best_speed = progress.best_speed
         /\ DOMAIN progress' = DOMAIN progress
         /\ \A key \in DOMAIN progress.words :
                /\ key \in DOMAIN progress'.words
                /\ progress'.words[key] = progress.words[key]
         /\ \A key \in DOMAIN progress'.words \ DOMAIN progress.words :
                progress'.words[key] = [mastery |-> 0, correct |-> 0, wrong |-> 0]]_vars

\* Next has been given on a card whose word has a record at mastery 5 from an
\* earlier run, after a Next that created a record for another word
C18_Witness ==
    /\ pc = "learn"
    /\ op.name = "learn"
    /\ op.action = "n"
    /\ session.idx = 2
    /\ CardKey(1) = "verbs:hören"
    /\ progress.words["verbs:hören"] = [mastery |-> 5, correct |-> 5, wrong |-> 0]
    /\ progress.words[CardKey(0)] = [mastery |-> 0, correct |-> 0, wrong |-> 0]
    /\ progress.xp = VeteranProgress.xp

\* C19: the direction of a Quiz question follows from its 1-based index
\* alone: questions 1, 3, 5, ... show the English text and require the
\* German one, questions 2, 4, 6, ... show the German text and require the
\* English one; in both directions every option is a text of the side the
\* answer is on.
C19_QuizDirection ==
    pc = "quiz" =>
        LET word == AskedWord
            odd  == session.qi \in {1, 3, 5, 7, 9}
            c    == session.choices
        IN  /\ session.qi \in 1..10
            /\ odd => /\ session.prompt_text = word.en
                      /\ session.correct_answer = word.de
                      /\ \A i \in DOMAIN c : \E j \in DOMAIN Words : c[i] = Words[j].de
            /\ ~odd => /\ session.prompt_text = word.de
                       /\ session.correct_answer = word.en
                       /\ \A i \in DOMAIN c : \E j \in DOMAIN Words : c[i] = Words[j].en

\* the second question of a quiz over all categories shows a German text and
\* offers English ones
C19_Witness ==
    /\ pc = "quiz"
    /\ category = "all"
    /\ session.qi = 2
    /\ session.prompt_text = "hören"
    /\ session.correct_answer = "hear"
    /\ \E i \in DOMAIN session.choices : session.choices[i] = "his"

\* the grade tier of a percentage: the first that applies
GradeTier(pct) ==
    CASE pct = 100 -> "perfekt"
      [] pct # 100 /\ pct >= 70 -> "sehr gut"
      [] pct < 70 /\ pct >= 50 -> "gut"
      [] OTHER -> "weiter"

\* C20: when a Quiz or Type session completes, the reported score is the
\* number of questions answered correctly, the reported total is the number
\* of questions that were asked, the percentage is floor(100 * score / total)
\* and the grade is the first tier that applies of 100, >= 70, >= 50, else;
\* so a session with every asked question answered correctly ends with 100%
\* and the top tier.
C20_ResultPanel ==
    pc \in {"quiz_done", "type_done"} =>
        /\ session.score \in 0..session.asked
        /\ session.n_questions = session.asked
        /\ session.asked > 0 =>
             /\ session.pct * session.asked <= 100 * session.score
             /\ 100 * session.score < (session.pct + 1) * session.asked
        /\ session.grade = GradeTier(session.pct)
        /\ (session.asked > 0 /\ session.score = session.asked) =>
             (session.pct = 100 /\ session.grade = "perfekt")

\* the word a Learn Next, an answer in Quiz or Type, or an answer in a Speed
\* round is about
TouchedWord ==
    IF pc = "learn" THEN LearnWord
    ELSE IF pc = "speed" THEN Words[session.word]
    ELSE AskedWord

\* the keys a record would have under the pseudo-category
PseudoKeys == {get_word_key("all", Words[i].de) : i \in 1..Len(Words)}

\* C21: in all-categories mode every answer and every Learn touch works on
\* the record keyed by the word's own source category and its source text: no
\* record keyed by the pseudo-category "all" is ever created, and when the
\* same text occurs in two categories, answering the entry of one category
\* leaves the record of the other unchanged.
C21_OwnCategoryRecord ==
    [][(/\ category = "all"
        /\ \/ op'.name \in AnswerOps /\ answers' = answers + 1
           \/ pc = "learn" /\ op'.name = "learn" /\ op'.action = "n") =>
         LET own    == get_word_key(TouchedWord["_category"], TouchedWord.de)
             before == RecordOf(progress, own)
             after  == progress'.words[own]
         IN  /\ TouchedWord["_category"] \in Range(CATEGORIES)
             /\ DOMAIN progress'.words = DOMAIN progress.words \cup {own}
             /\ DOMAIN progress'.words \cap PseudoKeys = {}
             /\ \A other \in DOMAIN progress.words \ {own} :
                    progress'.words[other] = progress.words[other]
             /\ \A i \in 1..Len(Words) :
                    (Words[i].de = TouchedWord.de
                       /\ Words[i]["_category"] # TouchedWord["_category"]) =>
                        LET twin == get_word_key(Words[i]["_category"], Words[i].de)
                        IN  /\ twin # own
                            /\ RecordOf(progress', twin) = RecordOf(progress, twin)
                            /\ (twin \in DOMAIN progress'.words)
                                   = (twin \in DOMAIN progress.words)
             /\ IF op'.name = "learn" THEN after = before
                ELSE IF op'.correct
                THEN /\ after.correct = before.correct + 1
                     /\ after.wrong = before.wrong
                     /\ after.mastery = (IF before.mastery < 5 THEN before.mastery + 1
                                         ELSE 5)
                ELSE /\ after.wrong = before.wrong + 1
                     /\ after.correct = before.correct
                     /\ after.mastery = (IF before.mastery > 0 THEN before.mastery - 1
                                         ELSE 0)]_vars

\* in all-categories mode the pronoun "sein" has been answered while the verb
\* "sein" keeps the record an earlier run has written
C21_Witness ==
    /\ category = "all"
    /\ op.name \in AnswerOps
    /\ op.key = "pronouns:sein"
    /\ {"pronouns:sein", "verbs:sein"} \subseteq DOMAIN progress.words
    /\ progress.words["verbs:sein"] = VeteranProgress.words["verbs:sein"]

\* C22: Quiz and Speed started with a word list of fewer than 2 entries ask
\* no question, leave the whole progress document unchanged, perform no save
\* and return control to the mode menu, from which another mode can be
\* chosen; with 2 or more entries they run.
C22_NotEnoughWords ==
    [][/\ (pc = "mode_menu" /\ op'.name \in {"quiz_start", "speed_start"}) =>
            IF Len(Words) < 2
            THEN /\ pc' = (IF op'.name = "quiz_start" THEN "quiz_few" ELSE "speed_few")
                 /\ session' = NoSession
                 /\ progress' = progress
                 /\ file' = file
                 /\ saves' = saves
                 /\ answers' = answers
            ELSE /\ pc' = (IF op'.name = "quiz_start" THEN "quiz" ELSE "speed_ready")
                 /\ session'.mode = (IF op'.name = "quiz_start" THEN "quiz" ELSE "speed")
       /\ (pc \in {"quiz_few", "speed_few"} /\ op'.name = "press_enter") =>
            /\ pc' = "mode_menu"
            /\ category' = category
            /\ progress' = progress
            /\ file' = file
            /\ saves' = saves
            /\ answers' = answers
       /\ (pc' \in {"quiz", "speed", "speed_ready"}) => Len(Words) >= 2]_vars

\* a Quiz or a Speed round has declined to run on a list of one word and
\* the program is back at the mode menu with nothing answered
C22_Witness ==
    /\ pc = "mode_menu"
    /\ op.name = "press_enter"
    /\ Len(Words) = 1
    /\ sessions >= 1
    /\ answers = 0
    /\ file = save_progress(progress)

\* the key of a word's record: its own category and its German text
KeyOf(word) ==
    get_word_key(IF category = "all" THEN word["_category"] ELSE category, word.de)

\* C23: in a Speed round an answer that cannot be parsed as an integer is
\* scored as a wrong answer for the current word (wrong count plus one,
\* mastery one step down and not below 0, xp and score unchanged) and the
\* round goes on with the next item; it never aborts the round.
C23_UnparsedIsWrong ==
    [][(pc = "speed" /\ op'.name = "speed" /\ ~op'.input.parsed) =>
         LET key    == KeyOf(Words[session.word])
             before == RecordOf(progress, key)
             after  == progress'.words[key]
         IN  /\ ~op'.correct
             /\ key \in DOMAIN progress'.words
             /\ after.wrong = before.wrong + 1
             /\ after.correct = before.correct
             /\ after.mastery = (IF before.mastery > 0 THEN before.mastery - 1 ELSE 0)
             /\ progress'.xp = progress.xp
             /\ progress'.best_speed = progress.best_speed
             /\ session'.score = session.score
             /\ session'.total = session.total
             /\ pc' = "speed_pause"
             /\ file' = save_progress(progress')]_vars

\* an answer that is no number has taken a mastered word one step down
C23_Witness ==
    /\ pc = "speed_pause"
    /\ op.name = "speed"
    /\ ~op.input.parsed
    /\ op.key = "verbs:hören"
    /\ progress.words[op.key] = [mastery |-> 4, correct |-> 5, wrong |-> 1]

\* C24: load_progress never fails: whether the progress file is missing, is
\* not valid JSON, holds a JSON value that is no object, or holds an object
\* lacking some fields, the program gets a document with all of xp, streak,
\* last_played, best_speed and words, and reaches the main menu with it.
C24_LoadNeverFails ==
    /\ pc # "crashed"
    /\ (op.name = "main" /\ vocab # VocabNone) =>
          /\ pc = "main_menu"
          /\ DOMAIN progress = Fields
          /\ progress.xp \in Nat
          /\ progress.best_speed \in Nat
          /\ progress.streak \in Nat \ {0}

\* C25: over any sequence of operations in one run the set of word keys of
\* the progress document only grows (a record once created is never removed)
\* and each record's correct count and wrong count never decrease.
C25_RecordsOnlyGrow ==
    [][/\ DOMAIN progress.words \subseteq DOMAIN progress'.words
       /\ \A key \in DOMAIN progress.words :
            /\ progress'.words[key].correct >= progress.words[key].correct
            /\ progress'.words[key].wrong >= progress.words[key].wrong]_vars

\* records have been added to those of an earlier run, and one record has
\* counted a right and a wrong answer
C25_Witness ==
    /\ op.name \in ScoringOps
    /\ DOMAIN VeteranProgress.words \subseteq DOMAIN progress.words
    /\ Cardinality(DOMAIN progress.words) >= 3
    /\ \E key \in DOMAIN progress.words :
         progress.words[key].correct >= 1 /\ progress.words[key].wrong >= 1

\* the word lists a mode can be started with: each category and all of them
PlayableCategories == DOMAIN vocab \cup {"all"}

\* C26: in every reachable state the selection weight 5 - mastery + 1 of
\* every word is an integer in 1..6 (6 at mastery 0, 1 at mastery 5), so the
\* weight is never zero or negative and every word of the list can be drawn
\* by the sampler and by the Speed round.
C26_WeightsPositive ==
    \A cat \in PlayableCategories :
        LET words   == WordsOf(vocab, cat)
            weights == Weights(progress, vocab, cat, words)
        IN  /\ \A i \in 1..Len(words) :
                 LET m == get_mastery(progress, CatOf(vocab, cat, words[i]), words[i].de)
                 IN  /\ weights[i] \in 1..6
                     /\ weights[i] = 6 - m
                     /\ (m = 0) => (weights[i] = 6)
                     /\ (m = 5) => (weights[i] = 1)
            /\ Drawable(weights) = 1..Len(words)

\* a Speed round has drawn the word of mastery 5, whose weight is 1, from a
\* list that also holds a word of weight 5
C26_Witness ==
    /\ pc = "speed"
    /\ category = "verbs"
    /\ Words[session.word].de = "hören"
    /\ get_mastery(progress, category, "hören") = 5
    /\ CurWeights = <<5, 1>>

\* C27: the sampler always terminates: its draw loop performs at most
\* min(n, |words|) * 20 draws whatever the draws return, the same index every
\* time included, and the padding step then completes the result without
\* further random retries.
C27_SamplerTerminates ==
    /\ [](call.st.attempts <= SampleN * 20)
    /\ [](call.returned => Len(call.result) = SampleN)
    /\ <>(call.returned)

\* every draw but the first has returned the index drawn first: the loop has
\* stopped at its cap and the padding has completed the result
C27_Witness ==
    /\ call.returned
    /\ call.padded
    /\ SampleN = 3
    /\ call.st.attempts = 60
    /\ Len(call.st.result) = 1
    /\ Len(call.result) = 3

\* C28: an external interrupt received while the program waits for input at
\* any prompt (main menu, mode menu, Learn, Quiz, Type, Speed, press-Enter
\* prompts) ends the whole process with exit status 0 after the farewell; the
\* progress saved by earlier scoring events stays as last saved.
C28_InterruptExits ==
    [][/\ (pc \in Prompts) => ENABLED Interrupt
       /\ (op'.name = "interrupt") =>
            /\ op'.at = pc
            /\ pc' = "exit0"
            /\ file' = file
            /\ saves' = saves
            /\ progress' = progress]_vars

\* the program has been interrupted at a quiz question, after an answer of
\* the same session was scored and saved
C28_Witness ==
    /\ op.name = "interrupt"
    /\ op.at = "quiz"
    /\ pc = "exit0"
    /\ answers = 1
    /\ file.kind = "object"
    /\ file.data.xp = progress.xp
    /\ progress.xp \in {10, VeteranProgress.xp + 10}

\* C29: in a Speed round an answer is scored correct only if the input is an
\* integer k with 1 <= k <= number of options and option k is the correct
\* answer; every other input, the default input 0 (Enter alone) and the
\* negative integers in particular, is scored wrong.
C29_SpeedSelection ==
    [][(pc = "speed" /\ op'.name = "speed" /\ op'.correct) =>
         /\ op'.input.parsed
         /\ op'.input.value \in 1..Len(session.choices)
         /\ session.choices[op'.input.value] = session.correct_answer]_vars

\* C30: whenever the program waits for input at the main menu or at the mode
\* menu, the persisted progress document equals the one in memory, so that
\* quitting from a menu never loses a change made in a finished session, the
\* records created by Next in Learn mode included.
C30_MenusAreSaved ==
    pc \in {"main_menu", "mode_menu"} =>
        /\ file.kind = "object"
        /\ file.data = progress

\* the source texts of a word list are pairwise distinct
DistinctTexts(words) ==
    \A i, j \in 1..Len(words) : i # j => words[i].de # words[j].de

\* by how much the answers counted for a word, and its mastery, differ from
\* what they were when the session began
CountedSince(word) ==
    LET now  == RecordOf(progress, KeyOf(word))
        then == RecordOf(session.start, KeyOf(word))
    IN  (now.correct + now.wrong) - (then.correct + then.wrong)
MasterySince(word) ==
    RecordOf(progress, KeyOf(word)).mastery - RecordOf(session.start, KeyOf(word)).mastery

\* C31: within one Quiz or Type session over a word list whose source texts
\* are pairwise distinct no word is asked twice, so each word's mastery
\* changes by at most one step and its correct count plus wrong count grows
\* by at most 1 during the session.  (In a Speed round the same word can be
\* drawn for several items: SpeedRepeats.)
C31_AskedOnce ==
    (/\ pc \in {"quiz", "quiz_pause", "quiz_done", "type", "type_pause", "type_done"}
     /\ DistinctTexts(Words)) =>
        /\ \A i, j \in 1..Len(session.questions) :
               i # j => session.questions[i] # session.questions[j]
        /\ \A i \in 1..Len(Words) :
               /\ CountedSince(Words[i]) \in {0, 1}
               /\ MasterySince(Words[i]) \in {-1, 0, 1}
               /\ CountedSince(Words[i]) = 0 => MasterySince(Words[i]) = 0

\* a session of two questions has ended with one answer counted for each of
\* two words
C31_Witness ==
    /\ pc \in {"quiz_done", "type_done"}
    /\ DistinctTexts(Words)
    /\ session.asked = 2
    /\ Cardinality({i \in 1..Len(Words) : CountedSince(Words[i]) = 1}) = 2

\* a Speed round has drawn one word for two items and scored both answers
SpeedRepeats ==
    /\ pc = "speed_pause"
    /\ DistinctTexts(Words)
    /\ \E i \in 1..Len(Words) : CountedSince(Words[i]) = 2

\* the answers counted in the records of the keys of S since the session began
RECURSIVE CountedIn(_)
CountedIn(S) ==
    IF S = {} THEN 0
    ELSE LET key  == CHOOSE k \in S : TRUE
             now  == RecordOf(progress, key)
             then == RecordOf(session.start, key)
         IN  (now.correct + now.wrong) - (then.correct + then.wrong)
                 + CountedIn(S \ {key})

\* the items answered so far in the running session
AnsweredSince == CountedIn(DOMAIN progress.words)

\* the points of a right answer in the running session's mode
SessionGain ==
    CASE session.mode = "quiz" -> 10
      [] session.mode = "type" -> 15
      [] session.mode = "speed" -> 5

\* C32: at every point of a Quiz, Type or Speed session xp equals its value
\* at session start plus 10, 15 or 5 times the current score, and the score
\* never exceeds the number of items answered so far; hence the "XP earned"
\* figure reported at completion equals the change of xp during the session.
C32_XpMatchesScore ==
    (pc \in {"quiz", "quiz_pause", "quiz_done", "type", "type_pause", "type_done",
             "speed", "speed_pause", "speed_done"}) =>
        /\ progress.xp = session.start.xp + SessionGain * session.score
        /\ session.score \in 0..AnsweredSince
        /\ (pc \in {"quiz_done", "type_done", "speed_done"}) =>
              /\ session.xp_earned = SessionGain * session.score
              /\ session.xp_earned = progress.xp - session.start.xp

\* a Type session has ended after one right and one wrong answer, on top of
\* the points of an earlier run
C32_Witness ==
    /\ pc = "type_done"
    /\ session.score = 1
    /\ AnsweredSince = 2
    /\ session.start.xp = VeteranProgress.xp
    /\ session.xp_earned = 15
    /\ progress.xp = VeteranProgress.xp + 15

====
